---------------------------- MODULE Spec2Model ----------------------------
(***************************************************************************)
(* Model of the k-means clustering model (src/src/kmeans.rs) and of the    *)
(* sparse Pearson correlation it uses (src/src/corr.rs).                   *)
(*                                                                         *)
(* Numbers.  An f64 is modelled as an exact rational [num, den] in lowest  *)
(* terms (den > 0), or as NaN, written [num |-> 0, den |-> 0].  The result *)
(* of pearson is numerator / sqrt(x) with x rational; it is kept exactly   *)
(* as its sign and its square.  Exact arithmetic leaves out the rounding   *)
(* of f64, which matters only where it makes or breaks a tie between two   *)
(* distances.  The data values and the initial centroid values are small   *)
(* multiples of 3; on every call the model can make with them, the f64     *)
(* arithmetic of the code selects the same centroid for every row.         *)
(***************************************************************************)
EXTENDS Integers, Sequences, FiniteSets, TLC

(***************************************************************************)
(* Bounds of the model.                                                    *)
(***************************************************************************)
RowCount == 3          \* row_count given to Model::new
ColumnCount == 4       \* column_count given to Model::new
MaxClusters == 2       \* cluster_count given to Model::new is in 0..MaxClusters
MaxSteps == 3          \* make_step calls per behaviour when the matrix varies
MaxCalls == 12         \* make_step calls per behaviour on one fixed matrix

(***************************************************************************)
(* Program constants.                                                      *)
(***************************************************************************)
MinEntries == 3        \* kmeans.rs:60   if row.len() < 3 { continue; }
EpsilonInverse == 1000000  \* corr.rs:41 denominator > 0.000001
TestCalls == 11        \* kmeans.rs:137  assert!(step < 10): at most 11 calls
NoCluster == -1        \* kmeans.rs:13   Option<usize>::None

VARIABLES
    cluster_count,     \* Model.cluster_count
    centroids,         \* Model.centroids: cluster index -> dense Row
    row_clusters,      \* Model.row_clusters: row index -> NoCluster or index
    matrix,            \* the caller's data matrix (the one last passed)
    changed_count,     \* value returned by the last make_step call
    status,            \* "new", "returned" or "panicked"
    steps,             \* number of make_step calls made
    zero_seen,         \* some make_step call has returned 0
    fixed,             \* every call so far was passed the same matrix
    prev_centroids,    \* the centroids before the last call (fixed matrix only)
    args,              \* pearson: the two rows a and b
    merge,             \* pearson: iterator positions and accumulators
    pc,                \* pearson: "idle", "loop" or "done"
    result             \* pearson: the returned value

kmeansVars == <<cluster_count, centroids, row_clusters, matrix,
                changed_count, status, steps, zero_seen, fixed,
                prev_centroids>>
pearsonVars == <<args, merge, pc, result>>
vars == <<cluster_count, centroids, row_clusters, matrix, changed_count,
          status, steps, zero_seen, fixed, prev_centroids,
          args, merge, pc, result>>

(***************************************************************************)
(* f64 values as exact rationals or NaN.                                   *)
(***************************************************************************)
Abs(k) == IF k < 0 THEN -k ELSE k

RECURSIVE GCD(_, _)
GCD(a, b) == IF b = 0 THEN a ELSE GCD(b, a % b)

NaN == [num |-> 0, den |-> 0]
IsNaN(x) == x.den = 0

Norm(p, q) ==
    LET g == GCD(Abs(p), q) IN [num |-> p \div g, den |-> q \div g]

Rat(k) == [num |-> k, den |-> 1]

RAdd(x, y) ==
    IF IsNaN(x) \/ IsNaN(y) THEN NaN
    ELSE LET g == GCD(x.den, y.den)
         IN  Norm(x.num * (y.den \div g) + y.num * (x.den \div g),
                  (x.den \div g) * y.den)

RNeg(x) == [num |-> -x.num, den |-> x.den]
RSub(x, y) == RAdd(x, RNeg(y))

RMul(x, y) ==
    IF IsNaN(x) \/ IsNaN(y) THEN NaN
    ELSE LET g1 == GCD(Abs(x.num), y.den)
             g2 == GCD(Abs(y.num), x.den)
         IN  [num |-> (x.num \div g1) * (y.num \div g2),
              den |-> (x.den \div g2) * (y.den \div g1)]

\* x / k for a count k: 0.0 / 0 and NaN / 0 are NaN.  A count of 0 is only
\* ever met with a sum of 0.0 (nothing was added) or inside a NaN product.
RDivInt(x, k) ==
    IF IsNaN(x) \/ k = 0 THEN NaN ELSE RMul(x, [num |-> 1, den |-> k])

\* a/b < c/d for a, c >= 0 and b, d > 0, by continued fractions (no products).
RECURSIVE FracLess(_, _, _, _)
FracLess(a, b, c, d) ==
    IF a \div b # c \div d THEN a \div b < c \div d
    ELSE IF c % d = 0 THEN FALSE
    ELSE IF a % b = 0 THEN TRUE
    ELSE FracLess(d, c % d, b, a % b)

(***************************************************************************)
(* The value numerator / sqrt(x) as a real: its sign and its square.       *)
(***************************************************************************)
Sign(k) == IF k > 0 THEN 1 ELSE IF k < 0 THEN -1 ELSE 0

Zero == [sgn |-> 0, sq |-> Rat(0)]
RealNaN == [sgn |-> 0, sq |-> NaN]

\* numerator / denominator, with denominator = sqrt(x) and x > 0
Quotient(numerator, x) ==
    IF IsNaN(numerator) THEN RealNaN
    ELSE LET sq == RMul(RMul(numerator, numerator), [num |-> x.den, den |-> x.num])
         IN  [sgn |-> Sign(numerator.num), sq |-> sq]

\* p > q for two such reals; false when either is NaN
RealGreater(p, q) ==
    IF IsNaN(p.sq) \/ IsNaN(q.sq) THEN FALSE
    ELSE IF p.sgn # q.sgn THEN p.sgn > q.sgn
    ELSE IF p.sgn = 0 THEN FALSE
    ELSE IF p.sgn > 0 THEN FracLess(q.sq.num, q.sq.den, p.sq.num, p.sq.den)
    ELSE FracLess(p.sq.num, p.sq.den, q.sq.num, q.sq.den)

(***************************************************************************)
(* Rows of the sparse row store: sequences of entries with strictly        *)
(* increasing column.                                                      *)
(***************************************************************************)
Entry(c, v) == [column |-> c, value |-> v]

Columns(row) == {row[k].column : k \in 1..Len(row)}

ValueAt(row, c) == row[CHOOSE k \in 1..Len(row) : row[k].column = c].value

(***************************************************************************)
(* corr::pearson.                                                          *)
(***************************************************************************)
MergeStart ==
    [i |-> 1, j |-> 1, n |-> 0,
     sum_a |-> Rat(0), sum_squared_a |-> Rat(0),
     sum_b |-> Rat(0), sum_squared_b |-> Rat(0),
     product_sum |-> Rat(0)]

\* while let (Some(&value_a), Some(&value_b)) = (peek a, peek b)
MergeRunning(a, b, s) == s.i <= Len(a) /\ s.j <= Len(b)

\* the comparison of `else if value_a.column > value_b.column` dropped
MergeStepNoSecondTest(a, b, s) ==
    LET value_a == a[s.i]
        value_b == b[s.j]
    IN  IF value_a.column < value_b.column THEN [s EXCEPT !.i = @ + 1]
        ELSE [i |-> s.i + 1, j |-> s.j + 1, n |-> s.n + 1,
              sum_a |-> RAdd(s.sum_a, value_a.value),
              sum_squared_a |-> RAdd(s.sum_squared_a, RMul(value_a.value, value_a.value)),
              sum_b |-> RAdd(s.sum_b, value_b.value),
              sum_squared_b |-> RAdd(s.sum_squared_b, RMul(value_b.value, value_b.value)),
              product_sum |-> RAdd(s.product_sum, RMul(value_a.value, value_b.value))]

\* one iteration of the loop body
MergeStep(a, b, s) ==
    LET value_a == a[s.i]
        value_b == b[s.j]
    IN  IF value_a.column < value_b.column THEN [s EXCEPT !.i = @ + 1]
        ELSE IF value_a.column > value_b.column THEN [s EXCEPT !.j = @ + 1]
        ELSE [i |-> s.i + 1, j |-> s.j + 1, n |-> s.n + 1,
              sum_a |-> RAdd(s.sum_a, value_a.value),
              sum_squared_a |-> RAdd(s.sum_squared_a, RMul(value_a.value, value_a.value)),
              sum_b |-> RAdd(s.sum_b, value_b.value),
              sum_squared_b |-> RAdd(s.sum_squared_b, RMul(value_b.value, value_b.value)),
              product_sum |-> RAdd(s.product_sum, RMul(value_a.value, value_b.value))]

RECURSIVE MergeRun(_, _, _)
MergeRun(a, b, s) ==
    IF MergeRunning(a, b, s) THEN MergeRun(a, b, MergeStep(a, b, s)) ELSE s

\* denominator > 0.000001, with denominator = sqrt(x): x > 10^-12, that is
\* x.num * 10^12 > x.den, that is x.num > floor(x.den / 10^12).  False for NaN.
DenominatorAboveEpsilon(x) ==
    /\ ~IsNaN(x)
    /\ x.num > (x.den \div EpsilonInverse) \div EpsilonInverse

\* the result when no column is shared taken to be 1.0 (full correlation)
AfterMergeNoOverlapOne(s) ==
    IF s.n = 0 THEN [sgn |-> 1, sq |-> Rat(1)]
    ELSE LET numerator ==
                 RSub(s.product_sum, RDivInt(RMul(s.sum_a, s.sum_b), s.n))
             x == RMul(RSub(s.sum_squared_a, RDivInt(RMul(s.sum_a, s.sum_a), s.n)),
                       RSub(s.sum_squared_b, RDivInt(RMul(s.sum_b, s.sum_b), s.n)))
         IN  IF DenominatorAboveEpsilon(x) THEN Quotient(numerator, x) ELSE Zero

\* the test inverted to `denominator <= 0.000001`, which a NaN fails
AfterMergeNaNPropagates(s) ==
    IF s.n = 0 THEN Zero
    ELSE LET numerator ==
                 RSub(s.product_sum, RDivInt(RMul(s.sum_a, s.sum_b), s.n))
             x == RMul(RSub(s.sum_squared_a, RDivInt(RMul(s.sum_a, s.sum_a), s.n)),
                       RSub(s.sum_squared_b, RDivInt(RMul(s.sum_b, s.sum_b), s.n)))
         IN  IF IsNaN(x) THEN RealNaN
             ELSE IF DenominatorAboveEpsilon(x) THEN Quotient(numerator, x)
             ELSE Zero

\* the code after the loop
AfterMerge(s) ==
    IF s.n = 0 THEN Zero
    ELSE LET numerator ==
                 RSub(s.product_sum, RDivInt(RMul(s.sum_a, s.sum_b), s.n))
             x == RMul(RSub(s.sum_squared_a, RDivInt(RMul(s.sum_a, s.sum_a), s.n)),
                       RSub(s.sum_squared_b, RDivInt(RMul(s.sum_b, s.sum_b), s.n)))
         IN  IF DenominatorAboveEpsilon(x) THEN Quotient(numerator, x) ELSE Zero

pearson(a, b) == AfterMerge(MergeRun(a, b, MergeStart))

(***************************************************************************)
(* Inputs: the data rows a caller may put in a matrix, and the values the  *)
(* random source may give the centroids at construction.                   *)
(***************************************************************************)
RowIndices == 0..(RowCount - 1)
ColumnIndices == 0..(ColumnCount - 1)

MkRow(pairs) == [k \in 1..Len(pairs) |-> Entry(pairs[k][1], Rat(pairs[k][2]))]

ShortRow == MkRow(<< <<0, 3>>, <<1, 0>> >>)
FullRow == MkRow(<< <<0, 6>>, <<1, 3>>, <<2, 3>>, <<3, 3>> >>)
TailRow == MkRow(<< <<1, 3>>, <<2, 0>>, <<3, 6>> >>)
HeadRow == MkRow(<< <<0, 0>>, <<1, 3>>, <<2, 3>> >>)
NaNRow == << Entry(0, NaN), Entry(1, Rat(3)), Entry(2, Rat(6)) >>

DataRows == {ShortRow, FullRow, HeadRow}

\* the matrices passed when the caller changes its matrix between calls
Matrices == [RowIndices -> DataRows]

\* the matrices of a caller that passes one matrix to every call; as in
\* test_random, a row may hold an explicit NaN
FixedMatrices == [RowIndices -> DataRows \cup {TailRow, NaNRow}]

\* a matrix of row_count rows without entries
EmptyMatrix == [r \in RowIndices |-> << >>]

\* one dense centroid row, an entry per column
DenseRow(f) == [k \in 1..ColumnCount |-> Entry(k - 1, Rat(f[k - 1]))]

SeedRows ==
    { DenseRow([c \in ColumnIndices |-> IF c < 2 THEN 6 ELSE 3]),
      DenseRow([c \in ColumnIndices |-> IF c < 2 THEN 6 ELSE 0]),
      DenseRow([c \in ColumnIndices |-> 3]) }

PearsonRows == DataRows \cup SeedRows \cup
    { << >>, TailRow, NaNRow, MkRow(<< <<3, 6>> >>), MkRow(<< <<0, 3>>, <<2, 6>> >>) }

(***************************************************************************)
(* Model::get_nearest_centroid.  A distance 1.0 - p is kept as p.          *)
(***************************************************************************)
Infinity == [inf |-> TRUE, p |-> Zero]
Distance(p) == [inf |-> FALSE, p |-> p]
DistanceIsNaN(d) == ~d.inf /\ IsNaN(d.p.sq)

\* `<=` in place of `<`
DistanceLessOrEqual(d, e) ==
    IF DistanceIsNaN(d) \/ DistanceIsNaN(e) THEN FALSE
    ELSE IF e.inf THEN TRUE
    ELSE ~d.inf /\ ~RealGreater(e.p, d.p)

\* distance < min_distance
DistanceLess(d, e) ==
    IF DistanceIsNaN(d) \/ DistanceIsNaN(e) THEN FALSE
    ELSE IF e.inf THEN ~d.inf
    ELSE ~d.inf /\ RealGreater(d.p, e.p)

RECURSIVE NearestLoop(_, _, _, _)
NearestLoop(row, i, min_distance, cluster_index) ==
    IF i >= cluster_count THEN cluster_index
    ELSE LET distance == Distance(pearson(row, centroids[i]))
         IN  IF DistanceLess(distance, min_distance)
             THEN NearestLoop(row, i + 1, distance, i)
             ELSE NearestLoop(row, i + 1, min_distance, cluster_index)

get_nearest_centroid(row) == NearestLoop(row, 0, Infinity, 0)

(***************************************************************************)
(* Model::make_step.                                                       *)
(***************************************************************************)
\* every row that is not skipped counted as changed
RECURSIVE AssignLoopCountsAll(_, _, _, _)
AssignLoopCountsAll(m, row_index, rc, count) ==
    IF row_index >= RowCount THEN [row_clusters |-> rc, changed_count |-> count]
    ELSE LET row == m[row_index]
         IN  IF Len(row) < MinEntries
             THEN AssignLoopCountsAll(m, row_index + 1, rc, count)
             ELSE AssignLoopCountsAll(m, row_index + 1,
                        [rc EXCEPT ![row_index] = get_nearest_centroid(row)],
                        count + 1)

\* a skipped row's assignment cleared
RECURSIVE AssignLoopClearsSkipped(_, _, _, _)
AssignLoopClearsSkipped(m, row_index, rc, count) ==
    IF row_index >= RowCount THEN [row_clusters |-> rc, changed_count |-> count]
    ELSE LET row == m[row_index]
         IN  IF Len(row) < MinEntries
             THEN AssignLoopClearsSkipped(m, row_index + 1,
                        [rc EXCEPT ![row_index] = NoCluster], count)
             ELSE LET cluster_index == get_nearest_centroid(row)
                  IN  AssignLoopClearsSkipped(m, row_index + 1,
                                 [rc EXCEPT ![row_index] = cluster_index],
                                 IF cluster_index # rc[row_index]
                                 THEN count + 1 ELSE count)

\* lines 58-69: assign nearest centroids
RECURSIVE AssignLoop(_, _, _, _)
AssignLoop(m, row_index, rc, count) ==
    IF row_index >= RowCount THEN [row_clusters |-> rc, changed_count |-> count]
    ELSE LET row == m[row_index]
         IN  IF Len(row) < MinEntries
             THEN AssignLoop(m, row_index + 1, rc, count)
             ELSE LET cluster_index == get_nearest_centroid(row)
                  IN  AssignLoop(m, row_index + 1,
                                 [rc EXCEPT ![row_index] = cluster_index],
                                 IF cluster_index # rc[row_index]
                                 THEN count + 1 ELSE count)

\* the reset left out: the sums start from the old centroid values
ResetCentroidsKeeps == centroids

\* lines 71-76: reset centroids
ResetCentroids ==
    [c \in 0..(cluster_count - 1) |->
        [k \in 1..Len(centroids[c]) |-> Entry(centroids[c][k].column, Rat(0))]]

\* line 78
NewValueCount == [x \in 0..(cluster_count * ColumnCount - 1) |-> 0]

\* lines 81-86: the entries of one row, from the k-th on; an index out of
\* bounds panics and ends the call
RECURSIVE SumEntries(_, _, _, _)
SumEntries(acc, cluster_index, row, k) ==
    IF acc.panicked \/ k > Len(row) THEN acc
    ELSE LET value == row[k]
             x == cluster_index * ColumnCount + value.column
         IN  IF x \notin DOMAIN acc.value_count
                \/ cluster_index \notin DOMAIN acc.centroids
                \/ value.column + 1 > Len(acc.centroids[cluster_index])
             THEN [acc EXCEPT !.panicked = TRUE]
             ELSE SumEntries(
                    [acc EXCEPT
                       !.value_count[x] = @ + 1,
                       !.centroids[cluster_index][value.column + 1].value =
                            RAdd(@, value.value)],
                    cluster_index, row, k + 1)

\* lines 79-88: sum up values
RECURSIVE SumRows(_, _, _, _)
SumRows(acc, m, rc, row_index) ==
    IF acc.panicked \/ row_index >= RowCount THEN acc
    ELSE IF rc[row_index] = NoCluster THEN SumRows(acc, m, rc, row_index + 1)
    ELSE SumRows(SumEntries(acc, rc[row_index], m[row_index], 1),
                 m, rc, row_index + 1)

\* the cluster's offset into value_count left out
DivideCentroidsNoOffset(acc) ==
    [c \in 0..(cluster_count - 1) |->
        [k \in 1..Len(acc.centroids[c]) |->
            Entry(acc.centroids[c][k].column,
                  RDivInt(acc.centroids[c][k].value,
                          acc.value_count[acc.centroids[c][k].column]))]]

\* lines 90-94: divide by value count
DivideCentroids(acc) ==
    [c \in 0..(cluster_count - 1) |->
        [k \in 1..Len(acc.centroids[c]) |->
            Entry(acc.centroids[c][k].column,
                  RDivInt(acc.centroids[c][k].value,
                          acc.value_count[c * ColumnCount + acc.centroids[c][k].column]))]]

\* the whole call: the assignment table and centroids it leaves, the value it
\* returns, and whether it panicked on an index out of bounds (lines 83, 85)
Outcome(assigned, acc) ==
    [row_clusters |-> assigned.row_clusters,
     changed_count |-> assigned.changed_count,
     panicked |-> acc.panicked,
     centroids |-> IF acc.panicked THEN acc.centroids ELSE DivideCentroids(acc)]

StepOutcome(m, assigned) ==
    Outcome(assigned,
            SumRows([centroids |-> ResetCentroids, value_count |-> NewValueCount,
                     panicked |-> FALSE], m, assigned.row_clusters, 0))

MakeStepOutcome(m) == StepOutcome(m, AssignLoop(m, 0, row_clusters, 0))

make_step(m) ==
    /\ status # "panicked"
    /\ \E out \in {MakeStepOutcome(m)} :
          /\ row_clusters' = out.row_clusters
          /\ centroids' = out.centroids
          /\ status' = IF out.panicked THEN "panicked" ELSE "returned"
          /\ changed_count' = IF out.panicked THEN changed_count
                              ELSE out.changed_count
          /\ zero_seen' = (zero_seen \/ (~out.panicked /\ out.changed_count = 0))
    /\ fixed' = (fixed /\ (steps = 0 \/ m = matrix))
    /\ matrix' = m
    /\ steps' = steps + 1
    /\ UNCHANGED <<cluster_count, args, merge, pc, result>>

(***************************************************************************)
(* The pearson loop as steps.                                              *)
(***************************************************************************)
PearsonLoop ==
    /\ pc = "loop"
    /\ MergeRunning(args[1], args[2], merge)
    /\ merge' = MergeStep(args[1], args[2], merge)
    /\ UNCHANGED <<kmeansVars, args, pc, result>>

PearsonReturn ==
    /\ pc = "loop"
    /\ ~MergeRunning(args[1], args[2], merge)
    /\ result' = AfterMerge(merge)
    /\ pc' = "done"
    /\ UNCHANGED <<kmeansVars, args, merge>>

(***************************************************************************)
(* Specifications.                                                         *)
(***************************************************************************)
PearsonIdle ==
    /\ args = << << >>, << >> >>
    /\ merge = MergeStart
    /\ pc = "idle"
    /\ result = Zero

\* Model::new, lines 18-37
New ==
    /\ cluster_count \in 0..MaxClusters
    /\ centroids \in [0..(cluster_count - 1) -> SeedRows]
    /\ row_clusters = [r \in RowIndices |-> NoCluster]
    /\ changed_count = 0
    /\ status = "new"
    /\ steps = 0
    /\ zero_seen = FALSE
    /\ fixed = TRUE
    /\ prev_centroids = centroids
    /\ PearsonIdle

\* the caller passes any matrix to each call
Init == New /\ matrix = EmptyMatrix

Next ==
    \E m \in Matrices :
        steps < MaxSteps /\ make_step(m) /\ UNCHANGED prev_centroids

Spec == Init /\ [][Next]_vars

\* the caller passes its one data matrix to every call (test_random)
InitFixed == New /\ matrix \in FixedMatrices

NextFixed ==
    steps < MaxCalls /\ make_step(matrix) /\ prev_centroids' = centroids

SpecFixed == InitFixed /\ [][NextFixed]_vars

InitPearson ==
    /\ cluster_count = 0
    /\ centroids = << >>
    /\ row_clusters = [r \in RowIndices |-> NoCluster]
    /\ matrix = EmptyMatrix
    /\ changed_count = 0
    /\ status = "new"
    /\ steps = 0
    /\ zero_seen = FALSE
    /\ fixed = TRUE
    /\ prev_centroids = << >>
    /\ args \in PearsonRows \X PearsonRows
    /\ merge = MergeStart
    /\ pc = "loop"
    /\ result = Zero

NextPearson == PearsonLoop \/ PearsonReturn

SpecPearson == InitPearson /\ [][NextPearson]_vars

(***************************************************************************)
(* Properties.                                                             *)
(***************************************************************************)
Skipped(m, r) == Len(m[r]) < MinEntries
Clusters == 0..(cluster_count - 1)

RECURSIVE SumOver(_, _)
SumOver(S, f) ==
    IF S = {} THEN Rat(0)
    ELSE LET x == CHOOSE y \in S : TRUE
         IN  RAdd(f[x], SumOver(S \ {x}, f))

\* C1: make_step returns the number of rows whose assignment-table entry
\* after the step differs from its value before the step.
C1_ReturnsNumberOfChangedEntries ==
    [][status' = "returned" =>
          changed_count' =
              Cardinality({r \in RowIndices : row_clusters'[r] # row_clusters[r]})]_vars

\* a call that changed one row, left an assigned row as it was and skipped one
C1_Witness ==
    /\ status = "returned"
    /\ steps >= 2
    /\ changed_count = 1
    /\ \E r \in RowIndices : Skipped(matrix, r)
    /\ Cardinality({r \in RowIndices : row_clusters[r] # NoCluster}) >= 2

\* C2: a row with fewer than 3 entries in the passed matrix keeps its
\* assignment-table entry in every call.
C2_SkippedRowKeepsEntry ==
    [][\A r \in RowIndices :
          Skipped(matrix', r) => row_clusters'[r] = row_clusters[r]]_vars

\* a row assigned in an earlier call and skipped in the last one
C2_Witness ==
    /\ status = "returned"
    /\ \E r \in RowIndices : Skipped(matrix, r) /\ row_clusters[r] # NoCluster

\* C3: every assignment-table entry is unassigned or a cluster index below
\* cluster_count.
C3_EntriesInRange ==
    \A r \in RowIndices :
        row_clusters[r] = NoCluster \/ row_clusters[r] \in Clusters

\* C4: after a call, a centroid's value at a column that some row assigned to
\* the cluster has is the mean of that column over those rows.
Contributors(c, col) ==
    {r \in RowIndices : row_clusters[r] = c /\ col \in Columns(matrix[r])}

Mean(S, col) ==
    RDivInt(SumOver(S, [r \in S |-> ValueAt(matrix[r], col)]), Cardinality(S))

C4_CentroidIsMean ==
    status = "returned" =>
        \A c \in Clusters : \A col \in ColumnIndices :
            Contributors(c, col) # {} =>
                centroids[c][col + 1].value = Mean(Contributors(c, col), col)

\* a mean over two rows, one of them skipped in the last call, in the second
\* cluster, with a column that only one row of the cluster has
C4_Witness ==
    /\ status = "returned"
    /\ cluster_count = 2
    /\ \E col \in ColumnIndices :
          /\ Cardinality(Contributors(1, col)) >= 2
          /\ \E r \in Contributors(1, col) : Skipped(matrix, r)
    /\ \E col \in ColumnIndices : Cardinality(Contributors(1, col)) = 1

\* C5: on one fixed matrix some call among the first 11 returns 0.
C5_ReturnsZeroWithinTestCalls == steps >= TestCalls => zero_seen

\* C6: once a call has returned 0, the next call on the same matrix returns 0
\* and leaves the assignment table and the centroids unchanged.
C6_ZeroIsFixedPoint ==
    [][(status = "returned" /\ changed_count = 0
            /\ steps' = steps + 1 /\ matrix' = matrix) =>
          (status' = "returned" /\ changed_count' = 0
            /\ row_clusters' = row_clusters /\ centroids' = centroids)]_vars

\* C6 as amended: when every call was passed the same matrix, once a call has
\* returned 0 every later call returns 0 and changes nothing.
C6_ZeroIsFixedPointOnOneMatrix ==
    [][(zero_seen /\ steps' = steps + 1 /\ fixed') =>
          (status' = "returned" /\ changed_count' = 0
            /\ row_clusters' = row_clusters /\ centroids' = centroids)]_vars

\* three calls on one matrix with rows assigned to both clusters, a 0 returned
C6_Witness ==
    /\ fixed
    /\ zero_seen
    /\ steps >= 3
    /\ changed_count = 0
    /\ \E r \in RowIndices : row_clusters[r] = 0
    /\ \E r \in RowIndices : row_clusters[r] = 1

\* C7: pearson of two rows that share no column is exactly 0.0.
Shared == Columns(args[1]) \cap Columns(args[2])

C7_NoOverlapIsZero == (pc = "done" /\ Shared = {}) => result = Zero

\* two rows with entries and no column in common
C7_Witness ==
    /\ pc = "done"
    /\ Shared = {}
    /\ Len(args[1]) > 0
    /\ Len(args[2]) > 0

\* C8: after the loop n is the number of shared columns and the five sums are
\* the sums over exactly the shared columns.
C8_MergeAccumulatesSharedColumns ==
    pc = "done" =>
        LET a == args[1]
            b == args[2]
            va == [c \in Shared |-> ValueAt(a, c)]
            vb == [c \in Shared |-> ValueAt(b, c)]
        IN  /\ merge.n = Cardinality(Shared)
            /\ merge.sum_a = SumOver(Shared, va)
            /\ merge.sum_b = SumOver(Shared, vb)
            /\ merge.sum_squared_a = SumOver(Shared, [c \in Shared |-> RMul(va[c], va[c])])
            /\ merge.sum_squared_b = SumOver(Shared, [c \in Shared |-> RMul(vb[c], vb[c])])
            /\ merge.product_sum = SumOver(Shared, [c \in Shared |-> RMul(va[c], vb[c])])

\* two rows that share two columns and each have a column the other lacks
C8_Witness ==
    /\ pc = "done"
    /\ Cardinality(Shared) = 2
    /\ Columns(args[1]) \ Shared # {}
    /\ Columns(args[2]) \ Shared # {}
    /\ merge.product_sum # Rat(0)

\* C9: a row with at least 3 entries is assigned the centroid at the smallest
\* distance 1 - pearson, and the lowest index among those at that distance.
\* (prev_centroids are the centroids the call compared the rows with.)
Correlation(cents, r, c) == pearson(matrix[r], cents[c])

C9_AssignsNearestLowestIndex ==
    (status = "returned" /\ Clusters # {}) =>
        \A r \in RowIndices :
            ~Skipped(matrix, r) =>
                /\ row_clusters[r] \in Clusters
                /\ \A j \in Clusters :
                      /\ ~RealGreater(Correlation(prev_centroids, r, j),
                                      Correlation(prev_centroids, r, row_clusters[r]))
                      /\ j < row_clusters[r] =>
                            Correlation(prev_centroids, r, j) #
                                Correlation(prev_centroids, r, row_clusters[r])

\* a call that gave a row the second centroid, strictly nearer than the first,
\* and gave another row the first centroid on a tie
C9_Witness ==
    /\ status = "returned"
    /\ cluster_count = 2
    /\ \E r \in RowIndices :
          /\ ~Skipped(matrix, r)
          /\ row_clusters[r] = 1
          /\ RealGreater(Correlation(prev_centroids, r, 1),
                         Correlation(prev_centroids, r, 0))
    /\ \E r \in RowIndices :
          /\ ~Skipped(matrix, r)
          /\ row_clusters[r] = 0
          /\ Correlation(prev_centroids, r, 1) = Correlation(prev_centroids, r, 0)

\* C10: a row is never assigned to a centroid that has a NaN cell in a column
\* the row has, unless every other centroid has one too.
NaNOn(cents, c, row) ==
    \E k \in 1..Len(cents[c]) :
        cents[c][k].column \in Columns(row) /\ IsNaN(cents[c][k].value)

C10_NaNCentroidNeverAssigned ==
    [][\A r \in RowIndices : \A c \in Clusters :
          (~Skipped(matrix', r) /\ NaNOn(centroids, c, matrix'[r])
              /\ row_clusters'[r] = c) =>
                \A j \in Clusters \ {c} : NaNOn(centroids, j, matrix'[r])]_vars

\* C10 as amended: the distance to such a centroid is exactly 1.0, and the row
\* is assigned to it only if every centroid of lower index is at a distance
\* above 1.0 and every centroid of higher index at a distance of 1.0 or more.
C10_NaNCentroidAtDistanceOne ==
    [][\A r \in RowIndices : \A c \in Clusters :
          (~Skipped(matrix', r) /\ NaNOn(centroids, c, matrix'[r])) =>
              /\ pearson(matrix'[r], centroids[c]) = Zero
              /\ row_clusters'[r] = c =>
                    \A j \in Clusters \ {c} :
                        /\ pearson(matrix'[r], centroids[j]).sgn <= 0
                        /\ j < c => pearson(matrix'[r], centroids[j]).sgn < 0]_vars

\* a row of finite values given the second centroid, which was NaN in all its
\* cells, while the first centroid was finite on the row's columns
C10_Witness ==
    /\ status = "returned"
    /\ cluster_count = 2
    /\ \E r \in RowIndices :
          /\ ~Skipped(matrix, r)
          /\ row_clusters[r] = 1
          /\ NaNOn(prev_centroids, 1, matrix[r])
          /\ ~NaNOn(prev_centroids, 0, matrix[r])
          /\ \A k \in 1..Len(matrix[r]) : ~IsNaN(matrix[r][k].value)

=============================================================================
